---------------------------- MODULE Spec2Model ----------------------------
(***************************************************************************)
(* A model of src/horoscope.py: the article text extraction parse_post,    *)
(* the image extraction extract_mk_images, the job pipeline of main and    *)
(* the retrying fetch http_get.                                            *)
(*                                                                         *)
(* A Python str is a sequence of characters; a character is a one-element  *)
(* string.  A character outside ASCII is written by its code point, so     *)
(* "U+B144" is the one character U+B144.                                   *)
(***************************************************************************)
EXTENDS Integers, Sequences, FiniteSets, TLC

VARIABLES
    pc,          \* position of the running function
    html,        \* parse_post: the parsed input document, as given
    soup,        \* parse_post: the BeautifulSoup tree (decompose mutates it)
    candidates,  \* parse_post: paths of the candidate elements, in list order
    body,        \* parse_post: path of the chosen element
    paragraphs,  \* parse_post: paragraphs after merge and repair
    new_pars,    \* parse_post: paragraphs that survive the boilerplate filter
    text,        \* parse_post: the text built so far / returned
    branch,      \* parse_post: the return path taken, "none" until it returns
    p,           \* repair pass: the paragraph given
    passes,      \* repair pass: the outputs of the successive applications
    which,       \* main: "both", "mk" or "jiyun"
    dry_run,     \* main: args.dry_run
    webhook,     \* main: whether GCHAT_WEBHOOK is set
    page,        \* find_today_post_url: the search page being fetched
    fallback_links, \* find_today_post_url: the links collected so far
    post_url,    \* main: the local post_url, the article URL found last
    mk_html,     \* main: the parsed MK article page
    jiyun_text,  \* main: the text of the askjiyun article after lines 572-573
    jobs,        \* main: the jobs list
    evaluated,   \* main: the jobs whose discovery has been started
    delivered,   \* main: how many jobs of the list have been posted or printed
    failed,      \* main: the step whose exception ended the run, or "none"
    retry,       \* http_get: the parameter retry
    backoff,     \* http_get: the parameter backoff, in tenths of a second
    attempt,     \* http_get: the loop variable i
    last_exc,    \* http_get: the exception caught last, "None" until one is
    log,         \* http_get: the requests issued and the sleeps taken, in order
    slept,       \* http_get: the time spent in time.sleep, in tenths of a second
    result       \* http_get: what the call gave: "none" while it runs, then
                 \* [returned |-> response text] or [raised |-> message]

parseVars == <<html, soup, candidates, body, paragraphs, new_pars, text, branch>>
repairVars == <<p, passes>>
mainVars == <<which, dry_run, webhook, page, fallback_links, post_url, mk_html,
              jiyun_text, jobs, evaluated, delivered, failed>>
httpVars == <<retry, backoff, attempt, last_exc, log, slept, result>>
vars == <<pc, parseVars, repairVars, mainVars, httpVars>>

-----------------------------------------------------------------------------
(* Characters and strings                                                  *)

\* what Python's \s and str.strip() take for whitespace, within the alphabet used
WS == {" ", "\t", "\n"}
\* the character class [.,:;?!%] of line 315
PUNCT == {".", ",", ":", ";", "?", "!", "%"}
\* the character class \d
DIGIT == {"0", "1", "2", "3", "4", "5", "6", "7", "8", "9"}
\* the literal "년생" of line 316
NYEONSAENG == <<"U+B144", "U+C0DD">>
\* the alternatives of the pattern of line 324: 이 게시물 | 공유 | 댓글 | 출처
MARKERS == { <<"U+C774", " ", "U+AC8C", "U+C2DC", "U+BB3C">>,
             <<"U+ACF5", "U+C720">>,
             <<"U+B313", "U+AE00">>,
             <<"U+CD9C", "U+CC98">> }

\* t occurs in s at position i
StartsAt(s, i, t) ==
    /\ i + Len(t) - 1 <= Len(s)
    /\ \A k \in 1..Len(t) : s[i + k - 1] = t[k]

\* t in s (a substring, as Python's "in" and an unanchored re.search of a literal)
Contains(s, t) == \E i \in 1..(Len(s) + 1) : StartsAt(s, i, t)

\* 1, 2, .., Len(s)
Indices(s) == [i \in 1..Len(s) |-> i]

\* the first index >= i of s that holds no character of the set cls (Len(s)+1 if none)
RECURSIVE SkipRun(_, _, _)
SkipRun(s, i, cls) ==
    IF i > Len(s) \/ s[i] \notin cls THEN i ELSE SkipRun(s, i + 1, cls)

\* the last index <= i of s that holds no character of the set cls (0 if none)
RECURSIVE SkipBack(_, _, _)
SkipBack(s, i, cls) ==
    IF i < 1 \/ s[i] \notin cls THEN i ELSE SkipBack(s, i - 1, cls)

\* str.strip()
Strip(s) ==
    LET a == SkipRun(s, 1, WS)
        b == SkipBack(s, Len(s), WS)
    IN  IF a > b THEN <<>> ELSE SubSeq(s, a, b)

\* sep.join(parts)
RECURSIVE Join(_, _)
Join(parts, sep) ==
    IF parts = <<>> THEN <<>>
    ELSE IF Len(parts) = 1 THEN parts[1]
    ELSE parts[1] \o sep \o Join(Tail(parts), sep)

\* str.splitlines(), for "\n" as the only line boundary of the alphabet: the k-th
\* line ends before the k-th "\n"; what follows the last "\n" is a line unless empty
splitlines(s) ==
    LET nl == SelectSeq(Indices(s), LAMBDA i : s[i] = "\n")
        last == IF nl = <<>> THEN 0 ELSE nl[Len(nl)]
        n == Len(nl) + (IF last < Len(s) THEN 1 ELSE 0)
    IN  [k \in 1..n |->
            SubSeq(s, (IF k = 1 THEN 1 ELSE nl[k - 1] + 1),
                      (IF k <= Len(nl) THEN nl[k] - 1 ELSE Len(s)))]

\* re.sub(r"[ \t]{2,}", " ", ln): of a run of two or more blanks or tabs only the
\* first place stays, and holds a blank
CollapseBlanks(s) ==
    LET BL == {" ", "\t"}
        kept == SelectSeq(Indices(s), LAMBDA i : ~(s[i] \in BL /\ i > 1 /\ s[i - 1] \in BL))
    IN  [k \in 1..Len(kept) |->
            LET i == kept[k]
            IN  IF s[i] \in BL /\ i < Len(s) /\ s[i + 1] \in BL THEN " " ELSE s[i]]

-----------------------------------------------------------------------------
(* The punctuation/spacing repair pass of parse_post, lines 313-319.       *)
(* A substitution is given by the places of the string it keeps: a match   *)
(* of \s+X starts at the first place of a whitespace run and takes the     *)
(* whole run, and matches do not overlap since X holds no whitespace.      *)

\* the characters of s at the places idx
At(s, idx) == [k \in 1..Len(idx) |-> s[idx[k]]]

\* a plausible slip: r"\s([.,:;?!%])", one whitespace character instead of the run
SubPunctOne(s) ==
    At(s, SelectSeq(Indices(s),
            LAMBDA i : ~(s[i] \in WS /\ i + 1 <= Len(s) /\ s[i + 1] \in PUNCT)))

\* re.sub(r"\s+([.,:;?!%])", r"\1", p): a whitespace run goes if a mark follows it
SubPunct(s) ==
    At(s, SelectSeq(Indices(s),
            LAMBDA i : ~(s[i] \in WS /\ LET j == SkipRun(s, i, WS)
                                        IN  j <= Len(s) /\ s[j] \in PUNCT)))

\* re.sub(r"\s+년생", r"년생", p)
SubNyeon(s) ==
    At(s, SelectSeq(Indices(s),
            LAMBDA i : ~(s[i] \in WS /\ StartsAt(s, SkipRun(s, i, WS), NYEONSAENG))))

\* the whitespace at i belongs to the run that opens a match of \s+(\d+)%\s*\. :
\* digits j..k-1 follow the run, "%" is at k, whitespace k+1..m-1, "." at m
OpensPercent(s, i) ==
    LET j == SkipRun(s, i, WS)
        k == SkipRun(s, j, DIGIT)
    IN  /\ k > j
        /\ k <= Len(s)
        /\ s[k] = "%"
        /\ LET m == SkipRun(s, k + 1, WS) IN m <= Len(s) /\ s[m] = "."

\* the whitespace at i is the \s* of such a match: "%" precedes its run, digits
\* precede the "%", whitespace precedes the digits, and "." follows the run
InsidePercent(s, i) ==
    LET a == SkipBack(s, i, WS)
        d == SkipBack(s, a - 1, DIGIT)
        m == SkipRun(s, i, WS)
    IN  /\ a >= 1
        /\ s[a] = "%"
        /\ d < a - 1
        /\ d >= 1
        /\ s[d] \in WS
        /\ m <= Len(s)
        /\ s[m] = "."

\* re.sub(r"\s+(\d+)%\s*\.", r" \1%.", p): the opening run becomes one blank, the
\* whitespace between "%" and "." goes
SubPercent(s) ==
    LET kept == SelectSeq(Indices(s),
                    LAMBDA i : ~(/\ s[i] \in WS
                                 /\ \/ InsidePercent(s, i)
                                    \/ OpensPercent(s, i) /\ i > 1 /\ s[i - 1] \in WS))
    IN  [k \in 1..Len(kept) |->
            LET i == kept[k]
            IN  IF s[i] \in WS /\ OpensPercent(s, i) THEN " " ELSE s[i]]

\* the body of the loop of lines 313-319, for one paragraph
Repair(s) == SubPercent(SubNyeon(SubPunct(s)))

-----------------------------------------------------------------------------
(* The parsed document.  A node is a record: an element has a tag, a class *)
(* list, an id, the three image attributes and its children; a text node   *)
(* has tag "#text" and its string.  An absent attribute is <<>>.  A node    *)
(* is addressed by its path, the child indexes from the root; decompose()  *)
(* never changes the path of an ancestor of what it removes.               *)

TextNode(s) ==
    [tag |-> "#text", class |-> <<>>, id |-> <<>>, src |-> <<>>, data_src |-> <<>>,
     data_original |-> <<>>, text |-> s, kids |-> <<>>]

El(tag, class, id, kids) ==
    [tag |-> tag, class |-> class, id |-> id, src |-> <<>>, data_src |-> <<>>,
     data_original |-> <<>>, text |-> <<>>, kids |-> kids]

Img(src, data_src, data_original) ==
    [tag |-> "img", class |-> <<>>, id |-> <<>>, src |-> src, data_src |-> data_src,
     data_original |-> data_original, text |-> <<>>, kids |-> <<>>]

\* BeautifulSoup(html, "html.parser"): the root object above the top-level nodes
BeautifulSoup(kids) == El("[document]", <<>>, <<>>, kids)

IsText(n) == n.tag = "#text"

RECURSIVE NodeAt(_, _)
NodeAt(n, path) ==
    IF path = <<>> THEN n ELSE NodeAt(n.kids[Head(path)], Tail(path))

RECURSIVE ReplaceAt(_, _, _)
ReplaceAt(n, path, new) ==
    IF path = <<>> THEN new
    ELSE [n EXCEPT !.kids[Head(path)] = ReplaceAt(n.kids[Head(path)], Tail(path), new)]

\* the paths of the descendant elements of n, in document order (n itself at prefix)
RECURSIVE PathsFrom(_, _, _)
PathsFrom(n, prefix, i) ==
    IF i > Len(n.kids) THEN <<>>
    ELSE LET k == n.kids[i]
             q == Append(prefix, i)
         IN  (IF IsText(k) THEN <<>> ELSE <<q>> \o PathsFrom(k, q, 1))
                 \o PathsFrom(n, prefix, i + 1)

Descendants(root, path) == PathsFrom(NodeAt(root, path), path, 1)

\* the strings below n, in document order
RECURSIVE Strings(_)
RECURSIVE StringsOf(_)
Strings(n) == IF IsText(n) THEN <<n.text>> ELSE StringsOf(n.kids)
StringsOf(kids) ==
    IF kids = <<>> THEN <<>> ELSE Strings(Head(kids)) \o StringsOf(Tail(kids))

\* what strip=True does to the strings: each is stripped, the empty ones are skipped
RECURSIVE StripAll(_)
StripAll(strs) ==
    IF strs = <<>> THEN <<>>
    ELSE LET h == Strip(Head(strs))
         IN  (IF h = <<>> THEN <<>> ELSE <<h>>) \o StripAll(Tail(strs))

\* el.get_text(sep, strip=True)
get_text(n, sep) == Join(StripAll(Strings(n)), sep)

-----------------------------------------------------------------------------
(* CSS selectors, as far as the program uses them                          *)

XE_CONTENT == <<"x", "e", "_", "c", "o", "n", "t", "e", "n", "t">>
READ_BODY == <<"r", "e", "a", "d", "_", "b", "o", "d", "y">>
BOARD_READ == <<"b", "o", "a", "r", "d", "_", "r", "e", "a", "d">>
RD_BODY == <<"r", "d", "_", "b", "o", "d", "y">>
READ == <<"r", "e", "a", "d">>
CONTENT == <<"c", "o", "n", "t", "e", "n", "t">>
SHARE == <<"s", "h", "a", "r", "e">>
SOCIAL == <<"s", "o", "c", "i", "a", "l">>
AD == <<"a", "d">>

ByClass(c) == [kind |-> "class", name |-> c, anc |-> <<>>]
ByTag(t) == [kind |-> "tag", name |-> t, anc |-> <<>>]
ById(i) == [kind |-> "id", name |-> i, anc |-> <<>>]
\* ".a .c": an element of class c below an element of class a
ByClassBelow(a, c) == [kind |-> "below", name |-> c, anc |-> a]

\* the list of lines 224-226
selectors ==
    << ByClass(XE_CONTENT), ByClass(READ_BODY), ByTag("article"),
       ByClassBelow(BOARD_READ, RD_BODY), ByClass(READ), ById(CONTENT) >>

HasClass(n, c) == \E k \in 1..Len(n.class) : n.class[k] = c

Matches(root, path, sel) ==
    LET n == NodeAt(root, path)
    IN  CASE sel.kind = "class" -> HasClass(n, sel.name)
          [] sel.kind = "tag" -> n.tag = sel.name
          [] sel.kind = "id" -> n.id = sel.name
          [] sel.kind = "below" ->
                /\ HasClass(n, sel.name)
                /\ \E k \in 1..(Len(path) - 1) :
                       HasClass(NodeAt(root, SubSeq(path, 1, k)), sel.anc)

\* the first path of paths whose element matches sel, as <<path>>, or <<>> for None
RECURSIVE FirstMatch(_, _, _)
FirstMatch(root, paths, sel) ==
    IF paths = <<>> THEN <<>>
    ELSE IF Matches(root, Head(paths), sel) THEN <<Head(paths)>>
    ELSE FirstMatch(root, Tail(paths), sel)

\* soup.select_one(s)
select_one(root, sel) == FirstMatch(root, Descendants(root, <<>>), sel)

-----------------------------------------------------------------------------
(* parse_post, lines 221-361                                               *)

\* lines 227-233: every selector that matches adds its first match, in list order
RECURSIVE PooledFrom(_, _)
PooledFrom(root, i) ==
    IF i > Len(selectors) THEN <<>>
    ELSE select_one(root, selectors[i]) \o PooledFrom(root, i + 1)

BLOCK_TAGS == {"div", "article", "section", "main"}
BLOCK_LIMIT == 30

RECURSIVE WithTag(_, _, _)
WithTag(root, paths, tags) ==
    IF paths = <<>> THEN <<>>
    ELSE (IF NodeAt(root, Head(paths)).tag \in tags THEN <<Head(paths)>> ELSE <<>>)
            \o WithTag(root, Tail(paths), tags)

\* soup.find_all(tags, limit=limit)
find_all(root, tags, limit) ==
    LET all == WithTag(root, Descendants(root, <<>>), tags)
    IN  IF Len(all) > limit THEN SubSeq(all, 1, limit) ELSE all

\* lines 227-242: the pooled matches, or else the first blocks of the document
Candidates(root) ==
    LET pooled == PooledFrom(root, 1)
    IN  IF pooled # <<>> THEN pooled ELSE find_all(root, BLOCK_TAGS, BLOCK_LIMIT)

\* the key of line 268: len(el.get_text(" ", strip=True))
TextLen(root, path) == Len(get_text(NodeAt(root, path), <<" ">>))

\* the keys of the candidates, as max() computes them, once each
Keys(root, cands) == [i \in 1..Len(cands) |-> TextLen(root, cands[i])]

\* Python's max(iterable, key=...), as the index it returns: the item at i replaces
\* the best one so far only if its key is strictly greater
RECURSIVE MaxFrom(_, _, _)
MaxFrom(keys, i, best) ==
    IF i > Len(keys) THEN best
    ELSE MaxFrom(keys, i + 1, IF keys[i] > keys[best] THEN i ELSE best)

\* a plausible slip: a later candidate of equal length replaces the best one
RECURSIVE MaxLastFrom(_, _, _)
MaxLastFrom(keys, i, best) ==
    IF i > Len(keys) THEN best
    ELSE MaxLastFrom(keys, i + 1, IF keys[i] >= keys[best] THEN i ELSE best)

MaxLast(root, cands) == cands[MaxLastFrom(Keys(root, cands), 2, 1)]

\* line 268
MaxByTextLen(root, cands) == cands[MaxFrom(Keys(root, cands), 2, 1)]

NOISE_TAGS == {"script", "style", "noscript", "iframe", "header", "footer", "nav", "form"}

\* line 274: [class*='share'], [class*='social'], [class*='ad'], [id*='share'], [id*='ad'].
\* The class attribute is matched as its tokens joined by blanks; no token searched
\* for holds a blank, so it is in the joined string iff it is in one of the tokens.
NoiseAttr(n) ==
    \/ \E k \in 1..Len(n.class) : \E t \in {SHARE, SOCIAL, AD} : Contains(n.class[k], t)
    \/ \E t \in {SHARE, AD} : n.id # <<>> /\ Contains(n.id, t)

\* what one of the two select() calls of lines 272-275 matches
Bad(n, step) ==
    /\ ~IsText(n)
    /\ IF step = "tags" THEN n.tag \in NOISE_TAGS ELSE NoiseAttr(n)

\* n after decompose() of every descendant that the step's selector matches
RECURSIVE Decomposed(_, _)
RECURSIVE DecomposedKids(_, _)
Decomposed(n, step) == [n EXCEPT !.kids = DecomposedKids(n.kids, step)]
DecomposedKids(kids, step) ==
    IF kids = <<>> THEN <<>>
    ELSE (IF Bad(Head(kids), step) THEN <<>> ELSE <<Decomposed(Head(kids), step)>>)
            \o DecomposedKids(Tail(kids), step)

\* lines 272-275, on the element itself (body is a reference into soup)
Pruned(n) == Decomposed(Decomposed(n, "tags"), "attrs")

\* lines 283-295 (and 250-263): strip each line, keep one blank line of a run,
\* collapse the blanks inside a line
RECURSIVE CleanFrom(_, _)
CleanFrom(lines, prev_blank) ==
    IF lines = <<>> THEN <<>>
    ELSE LET ln == Strip(Head(lines))
         IN  IF ln = <<>>
             THEN (IF prev_blank THEN <<>> ELSE << <<>> >>) \o CleanFrom(Tail(lines), TRUE)
             ELSE <<CollapseBlanks(ln)>> \o CleanFrom(Tail(lines), FALSE)

CleanLines(t) == CleanFrom(splitlines(t), FALSE)

\* a reading of the merge in which every line ends its paragraph
RECURSIVE MergePerLine(_, _)
MergePerLine(cleaned, cur_lines) ==
    IF cleaned = <<>> THEN <<>>
    ELSE (IF Head(cleaned) = <<>> THEN <<>> ELSE <<Head(cleaned)>>)
            \o MergePerLine(Tail(cleaned), cur_lines)

\* lines 297-310: the lines between blank lines are joined by a blank
RECURSIVE MergeFrom(_, _)
MergeFrom(cleaned, cur_lines) ==
    IF cleaned = <<>>
    THEN (IF cur_lines # <<>> THEN <<Strip(Join(cur_lines, <<" ">>))>> ELSE <<>>)
    ELSE IF Head(cleaned) = <<>>
    THEN (IF cur_lines # <<>> THEN <<Strip(Join(cur_lines, <<" ">>))>> ELSE <<>>)
            \o MergeFrom(Tail(cleaned), <<>>)
    ELSE MergeFrom(Tail(cleaned), Append(cur_lines, Head(cleaned)))

\* lines 313-319
RepairAll(pars) == [i \in 1..Len(pars) |-> Repair(pars[i])]

\* lines 282-319: the paragraphs of an element
Paragraphs(n) == RepairAll(MergeFrom(CleanLines(get_text(n, <<"\n">>)), <<>>))

BOILERPLATE_LEN == 120

\* a plausible slip: <= for <
IsBoilerplateLe(par) ==
    Len(par) <= BOILERPLATE_LEN /\ \E m \in MARKERS : Contains(par, m)

\* the condition of line 324
IsBoilerplate(par) ==
    Len(par) < BOILERPLATE_LEN /\ \E m \in MARKERS : Contains(par, m)

\* lines 322-328
RECURSIVE DropBoilerplate(_)
DropBoilerplate(pars) ==
    IF pars = <<>> THEN <<>>
    ELSE (IF IsBoilerplate(Head(pars)) THEN <<>> ELSE <<Head(pars)>>)
            \o DropBoilerplate(Tail(pars))

\* the path through the container of an input with the full-document path's shape:
\* merged, repaired and filtered
ReconstructedText(root) ==
    Strip(Join(DropBoilerplate(Paragraphs(root)), <<"\n", "\n">>))

\* lines 246-265: the text of the whole document, its lines cleaned
FullDocumentText(root) ==
    Strip(Join(CleanLines(get_text(root, <<"\n">>)), <<"\n">>))

-----------------------------------------------------------------------------
(* The steps of parse_post                                                 *)

\* lines 222-242
SelectCandidates ==
    /\ pc = "parse_post"
    /\ candidates' = Candidates(soup)
    /\ pc' = IF candidates' = <<>> THEN "full_document" ELSE "choose"
    /\ UNCHANGED <<html, soup, body, paragraphs, new_pars, text, branch,
                 repairVars, mainVars, httpVars>>

\* lines 244-265
FullDocument ==
    /\ pc = "full_document"
    /\ text' = FullDocumentText(soup)
    /\ branch' = "full_document"
    /\ pc' = "done"
    /\ UNCHANGED <<html, soup, candidates, body, paragraphs, new_pars,
                 repairVars, mainVars, httpVars>>

\* line 268
ChooseBody ==
    /\ pc = "choose"
    /\ body' = MaxByTextLen(soup, candidates)
    /\ pc' = "prune"
    /\ UNCHANGED <<html, soup, candidates, paragraphs, new_pars, text, branch,
                 repairVars, mainVars, httpVars>>

\* lines 272-275
Prune ==
    /\ pc = "prune"
    /\ soup' = ReplaceAt(soup, body, Pruned(NodeAt(soup, body)))
    /\ pc' = "reconstruct"
    /\ UNCHANGED <<html, candidates, body, paragraphs, new_pars, text, branch,
                 repairVars, mainVars, httpVars>>

\* lines 282-319
Reconstruct ==
    /\ pc = "reconstruct"
    /\ paragraphs' = Paragraphs(NodeAt(soup, body))
    /\ pc' = "filter"
    /\ UNCHANGED <<html, soup, candidates, body, new_pars, text, branch,
                 repairVars, mainVars, httpVars>>

\* lines 322-333
FilterBoilerplate ==
    /\ pc = "filter"
    /\ new_pars' = DropBoilerplate(paragraphs)
    /\ text' = Strip(Join(new_pars', <<"\n", "\n">>))
    /\ IF text' = <<>>
       THEN pc' = "fallback" /\ branch' = branch
       ELSE pc' = "done" /\ branch' = "cleaned"
    /\ UNCHANGED <<html, soup, candidates, body, paragraphs,
                 repairVars, mainVars, httpVars>>

\* lines 333-348: body is the element the prune step has changed
Fallback ==
    /\ pc = "fallback"
    /\ text' = Strip(get_text(NodeAt(soup, body), <<"\n">>))
    /\ branch' = "fallback"
    /\ pc' = "done"
    /\ UNCHANGED <<html, soup, candidates, body, paragraphs, new_pars,
                 repairVars, mainVars, httpVars>>

ParseNext ==
    \/ SelectCandidates
    \/ FullDocument
    \/ ChooseBody
    \/ Prune
    \/ Reconstruct
    \/ FilterBoilerplate
    \/ Fallback

-----------------------------------------------------------------------------
(* The documents parse_post is run on                                      *)

MaxKids == 2   \* children of the container, and top-level nodes without a block
MaxPars == 2   \* paragraphs, separated by blank lines, inside one text node
MaxTop == 2    \* top-level elements of a document with several candidates
MaxOver == 80  \* how far the longest paragraph exceeds the boilerplate threshold

SeqsOf(S, lo, hi) == UNION { [1..k -> S] : k \in lo..hi }

\* "오늘의 운세 입니다 ."
T_TODAY == <<"U+C624", "U+B298", "U+C758", " ", "U+C6B4", "U+C138", " ",
             "U+C785", "U+B2C8", "U+B2E4", " ", ".">>
\* "이 게시물을 공유해주세요"
T_SHARE == <<"U+C774", " ", "U+AC8C", "U+C2DC", "U+BB3C", "U+C744", " ",
             "U+ACF5", "U+C720", "U+D574", "U+C8FC", "U+C138", "U+C694">>
\* "공유"
T_GONGYU == <<"U+ACF5", "U+C720">>

\* prefix followed by the character U+AC00 up to the length n
Padded(prefix, n) == prefix \o [i \in 1..(n - Len(prefix)) |-> "U+AC00"]

\* paragraphs around the threshold; the last two lose one character in the repair
PARAS ==
    { T_TODAY, T_SHARE,
      Padded(T_GONGYU, BOILERPLATE_LEN - 1),
      Padded(T_GONGYU, BOILERPLATE_LEN),
      Padded(T_GONGYU, BOILERPLATE_LEN + MaxOver),
      Padded(T_GONGYU \o <<" ", ".">>, BOILERPLATE_LEN),
      Padded(T_GONGYU \o <<" ", ".">>, BOILERPLATE_LEN + 1) }

P(t) == El("p", <<>>, <<>>, <<TextNode(t)>>)

\* children of a container: content, and elements the prune step is about
KIDS ==
    { P(T_TODAY), P(T_SHARE),
      El("nav", <<>>, <<>>, <<TextNode(<<"n", "a", "v">>)>>),
      El("script", <<>>, <<>>, <<>>),
      El("div", <<SHARE>>, <<>>, <<TextNode(<<"c", "s">>)>>),
      El("div", << <<"b", "o", "x">>, <<"s", "o", "c", "i", "a", "l", "s">> >>, <<>>,
         <<TextNode(<<"c", "o">>)>>),
      El("div", << <<"h", "e", "a", "d">> >>, <<>>, <<TextNode(<<"c", "a">>)>>),
      El("span", <<>>, <<"s", "h", "a", "r", "e", "1">>, <<TextNode(<<"i", "s">>)>>),
      El("div", <<>>, SOCIAL, <<TextNode(<<"i", "o">>)>>),
      El("div", <<>>, <<"a", "d", "_", "t", "o", "p">>, <<TextNode(<<"i", "a">>)>>),
      El("div", <<>>, <<>>,
         <<P(<<"k">>), El("form", <<>>, <<>>, <<TextNode(<<"f">>)>>)>>) }

XeContent(kids) == El("div", <<XE_CONTENT>>, <<>>, kids)

\* one .xe_content container
ContainerDocs ==
    { BeautifulSoup(<<XeContent(kids)>>) : kids \in SeqsOf(KIDS, 0, MaxKids) }
      \cup { BeautifulSoup(<<XeContent(<<TextNode(Join(ps, <<"\n", "\n">>))>>)>>) :
                ps \in SeqsOf(PARAS, 1, MaxPars) }

SMALL_TEXTS == { <<"a">>, <<"b", "b">>, <<"c", "c">> }

\* elements the selectors or the block fallback take for candidates
TOPS ==
    UNION { { XeContent(<<TextNode(t)>>),
              El("article", <<>>, <<>>, <<TextNode(t)>>),
              El("div", <<>>, CONTENT, <<TextNode(t)>>),
              El("div", <<>>, <<>>, <<TextNode(t)>>),
              El("section", <<>>, <<>>, <<P(t), El("main", <<>>, <<>>, <<TextNode(t)>>)>>),
              El("div", <<BOARD_READ>>, <<>>, <<El("div", <<RD_BODY>>, <<>>, <<TextNode(t)>>)>>)
            } : t \in SMALL_TEXTS }

CandidateDocs == { BeautifulSoup(tops) : tops \in SeqsOf(TOPS, 2, MaxTop) }

\* more blocks than find_all's limit, the longest one last
ManyBlocksDoc ==
    BeautifulSoup([i \in 1..(BLOCK_LIMIT + 1) |->
        El("div", <<>>, <<>>,
           <<TextNode(IF i > BLOCK_LIMIT THEN <<"c", "c">> ELSE <<"a">>)>>)])

\* nodes that no selector matches and that are no block
INLINE ==
    { TextNode(<<" ", "U+C624", " ", " ", "\t", "U+B298", " ", " ", "\n", " ", "\n",
                 "\n", "U+C758", " ", ".", "\n">>),
      TextNode(<<"\n", " ">>),
      P(T_SHARE),
      El("span", <<SHARE>>, <<>>, <<TextNode(T_TODAY)>>),
      El("p", <<>>, <<>>, <<El("nav", <<>>, <<>>, <<TextNode(<<"n", "\n", "\n", "v">>)>>)>>) }

FullDocs == { BeautifulSoup(kids) : kids \in SeqsOf(INLINE, 0, MaxKids) }

Documents == ContainerDocs \cup CandidateDocs \cup {ManyBlocksDoc} \cup FullDocs

-----------------------------------------------------------------------------
(* Specifications                                                          *)

IdleParse ==
    /\ html = BeautifulSoup(<<>>)
    /\ soup = BeautifulSoup(<<>>)
    /\ candidates = <<>>
    /\ body = <<>>
    /\ paragraphs = <<>>
    /\ new_pars = <<>>
    /\ text = <<>>
    /\ branch = "none"

IdleRepair ==
    /\ p = <<>>
    /\ passes = <<>>

IdleMain ==
    /\ which = "none"
    /\ dry_run = FALSE
    /\ webhook = FALSE
    /\ page = 0
    /\ fallback_links = <<>>
    /\ post_url = <<>>
    /\ mk_html = BeautifulSoup(<<>>)
    /\ jiyun_text = <<>>
    /\ jobs = <<>>
    /\ evaluated = {}
    /\ delivered = 0
    /\ failed = "none"

IdleHttp ==
    /\ retry = 0
    /\ backoff = 0
    /\ attempt = 0
    /\ last_exc = "None"
    /\ log = <<>>
    /\ slept = 0
    /\ result = "none"

\* parse_post(html) for every document
ParseInit ==
    /\ pc = "parse_post"
    /\ html \in Documents
    /\ soup = html
    /\ candidates = <<>>
    /\ body = <<>>
    /\ paragraphs = <<>>
    /\ new_pars = <<>>
    /\ text = <<>>
    /\ branch = "none"
    /\ IdleRepair
    /\ IdleMain
    /\ IdleHttp

ParseSpec == ParseInit /\ [][ParseNext]_vars

-----------------------------------------------------------------------------
(* The repair pass on its own output                                       *)

MaxLen == 5   \* length of the paragraphs the repair pass is applied to

\* whitespace, punctuation marks, a digit and the two characters of "년생"
REPAIR_ALPHABET == {" ", "\n", ".", "%", "7", "U+B144", "U+C0DD"}

RepairInit ==
    /\ pc = "repair"
    /\ p \in SeqsOf(REPAIR_ALPHABET, 0, MaxLen)
    /\ passes = <<>>
    /\ IdleParse
    /\ IdleMain
    /\ IdleHttp

\* lines 315-318 applied to p, and then to what they gave
ApplyRepair ==
    /\ pc = "repair"
    /\ passes' = Append(passes, Repair(IF passes = <<>> THEN p ELSE passes[Len(passes)]))
    /\ pc' = IF Len(passes') = 2 THEN "done" ELSE "repair"
    /\ UNCHANGED <<p, parseVars, mainVars, httpVars>>

RepairNext == ApplyRepair

RepairSpec == RepairInit /\ [][RepairNext]_vars

\* C7: the repair pass is idempotent: applied to its own output it gives that
\* output again, and its output has no whitespace right before a mark of . , : ; ? ! %
C7_RepairIdempotent ==
    /\ Len(passes) >= 1 =>
          \A i \in 1..(Len(passes[1]) - 1) :
              ~(passes[1][i] \in WS /\ passes[1][i + 1] \in PUNCT)
    /\ Len(passes) = 2 => passes[2] = passes[1]

\* a paragraph with whitespace before a mark, whitespace before "년생" or a split
\* percentage, repaired twice
C7_Witness ==
    /\ Len(passes) = 2
    /\ passes[1] # p
    /\ \E i \in 1..(Len(p) - 1) : p[i] \in WS /\ p[i + 1] \in PUNCT

-----------------------------------------------------------------------------
(* Claims about parse_post, under ParseSpec                                *)

\* parse_post has chosen a container (it is past line 268)
Chosen == pc \in {"prune", "reconstruct", "filter", "fallback"}
              \/ (pc = "done" /\ branch # "full_document")

\* the prune step has run
AfterPrune == pc \in {"reconstruct", "filter", "fallback"}
                  \/ (pc = "done" /\ branch # "full_document")

\* the boilerplate filter has run
Filtered == pc = "fallback" \/ (pc = "done" /\ branch # "full_document")

\* <div class="xe_content"><p>오늘의 운세 입니다 .</p><p>이 게시물을 공유해주세요</p></div>
C1_Doc == BeautifulSoup(<<XeContent(<<P(T_TODAY), P(T_SHARE)>>)>>)

\* "오늘의 운세 입니다."
C1_Repaired == SubSeq(T_TODAY, 1, 10) \o <<".">>

\* C1 as stated: for that input the only candidate is the .xe_content element, one
\* paragraph "오늘의 운세 입니다." survives and is the text returned
C1_AsStated ==
    (html = C1_Doc /\ pc = "done") =>
        /\ candidates = << <<1>> >>
        /\ new_pars = <<C1_Repaired>>
        /\ text = C1_Repaired

\* C1 amended: for that input the only candidate is the .xe_content element; the
\* two <p> give two lines with no blank line between them, so they are merged into
\* the one paragraph "오늘의 운세 입니다. 이 게시물을 공유해주세요", which is dropped as
\* boilerplate; the cleaned text is empty and the fallback returns the raw text
\* "오늘의 운세 입니다 .\n이 게시물을 공유해주세요"
C1_Amended ==
    html = C1_Doc =>
        /\ pc # "parse_post" => candidates = << <<1>> >>
        /\ Chosen => body = <<1>>
        /\ pc \in {"filter", "fallback", "done"} =>
              paragraphs = <<C1_Repaired \o <<" ">> \o T_SHARE>>
        /\ Filtered => new_pars = <<>>
        /\ pc = "done" => branch = "fallback" /\ text = T_TODAY \o <<"\n">> \o T_SHARE

C1_Witness == html = C1_Doc /\ pc = "done" /\ text # <<>>

\* C2: no loss: when the container had text before pruning and the cleaned text is
\* empty, the text returned is non-empty and is the raw text of the container as it
\* was before pruning
C2_NoLoss ==
    LET raw == Strip(get_text(NodeAt(html, body), <<"\n">>))
    IN  (pc = "done" /\ branch = "fallback" /\ raw # <<>>) =>
            text # <<>> /\ text = raw

\* a precedes b in document order: an ancestor precedes its descendants
DocBefore(a, b) ==
    \E k \in 1..(Len(b)) :
        /\ k <= Len(a) + 1
        /\ \A i \in 1..(k - 1) : a[i] = b[i]
        /\ k = Len(a) + 1 \/ a[k] < b[k]

\* C3 as stated: of two or more candidates the chosen one has the greatest
\* rendered-text length, and of several of that length it is the earliest in
\* document order
C3_AsStated ==
    (Chosen /\ Len(candidates) >= 2) =>
        \A i \in 1..Len(candidates) :
            /\ TextLen(html, candidates[i]) <= TextLen(html, body)
            /\ (TextLen(html, candidates[i]) = TextLen(html, body)
                    /\ candidates[i] # body) => DocBefore(body, candidates[i])

\* C3 amended: of two or more candidates the chosen one has the greatest
\* rendered-text length, and of several of that length it is the earliest in the
\* candidate list: the order of the selector list for the pooled matches, document
\* order for the blocks of the fallback
C3_Amended ==
    (Chosen /\ Len(candidates) >= 2) =>
        /\ \E i \in 1..Len(candidates) :
              /\ body = candidates[i]
              /\ \A j \in 1..Len(candidates) :
                    /\ TextLen(html, candidates[j]) <= TextLen(html, candidates[i])
                    /\ j < i => TextLen(html, candidates[j]) < TextLen(html, candidates[i])
        /\ (\A k \in 1..Len(selectors) : select_one(html, selectors[k]) = <<>>) =>
              \A j \in 1..Len(candidates) :
                  (TextLen(html, candidates[j]) = TextLen(html, body)
                      /\ candidates[j] # body) => DocBefore(body, candidates[j])

\* two pooled candidates of the greatest length, the chosen one the later in the document
C3_Witness ==
    /\ Chosen
    /\ \E j \in 1..Len(candidates) :
          /\ candidates[j] # body
          /\ TextLen(html, candidates[j]) = TextLen(html, body)
          /\ DocBefore(candidates[j], body)

\* no structural selector matches in the document and it holds no block element
NoContainer(root) ==
    \A k \in 1..Len(Descendants(root, <<>>)) :
        LET q == Descendants(root, <<>>)[k]
        IN  /\ NodeAt(root, q).tag \notin {"div", "article", "section", "main"}
            /\ \A i \in 1..Len(selectors) : ~Matches(root, q, selectors[i])

\* the lines of t, each trimmed and its blank runs collapsed, without the blank
\* lines that follow a blank line
LinesKept(t) ==
    LET ls == splitlines(t)
        kept == SelectSeq(Indices(ls),
                    LAMBDA k : ~(Strip(ls[k]) = <<>> /\ k > 1 /\ Strip(ls[k - 1]) = <<>>))
    IN  [k \in 1..Len(kept) |-> CollapseBlanks(Strip(ls[kept[k]]))]

\* C4: a document that no selector matches and that holds no block takes the
\* full-document path: nothing is pruned, merged or filtered, and the text returned
\* is the document's text with its lines trimmed, blank lines collapsed to one and
\* runs of blanks and tabs collapsed to one blank
C4_FullDocument ==
    (NoContainer(html) /\ pc = "done") =>
        /\ branch = "full_document"
        /\ soup = html
        /\ candidates = <<>> /\ paragraphs = <<>> /\ new_pars = <<>>
        /\ text = Strip(Join(LinesKept(get_text(html, <<"\n">>)), <<"\n">>))

\* the text returned keeps a boilerplate marker and a line break
C4_Witness ==
    /\ NoContainer(html)
    /\ pc = "done"
    /\ \E m \in MARKERS : Contains(text, m)
    /\ Contains(text, <<"\n">>)
    /\ \E i \in 1..(Len(text) - 1) : text[i] \in WS /\ text[i + 1] \in PUNCT

\* C5: the filter drops a paragraph only if it is shorter than 120 characters and
\* holds one of the markers; the others are kept as they are, in their order
C5_BoilerplateFilter ==
    Filtered =>
        new_pars = At(paragraphs,
                      SelectSeq(Indices(paragraphs),
                          LAMBDA i : \/ Len(paragraphs[i]) >= 120
                                     \/ \A m \in MARKERS : ~Contains(paragraphs[i], m)))

\* a paragraph of 200 characters with "공유" is kept while a short one is dropped
C5_Witness ==
    /\ Filtered
    /\ Len(new_pars) < Len(paragraphs)
    /\ \E i \in 1..Len(new_pars) :
          Len(new_pars[i]) = BOILERPLATE_LEN + MaxOver /\ Contains(new_pars[i], T_GONGYU)

\* C10: after the prune step the container holds no script, style, noscript,
\* iframe, header, footer, nav or form element and no element whose class or id
\* holds "share", "social" or "ad"
C10_NoNoiseLeft ==
    AfterPrune =>
        \A k \in 1..Len(Descendants(soup, body)) :
            LET n == NodeAt(soup, Descendants(soup, body)[k])
            IN  /\ n.tag \notin {"script", "style", "noscript", "iframe", "header",
                                 "footer", "nav", "form"}
                /\ \A t \in {SHARE, SOCIAL, AD} :
                      /\ ~Contains(n.id, t)
                      /\ \A c \in 1..Len(n.class) : ~Contains(n.class[c], t)

-----------------------------------------------------------------------------
(* URLs and extract_mk_images, lines 172-217                               *)

LOWER == <<"a", "b", "c", "d", "e", "f", "g", "h", "i", "j", "k", "l", "m",
           "n", "o", "p", "q", "r", "s", "t", "u", "v", "w", "x", "y", "z">>
UPPER == <<"A", "B", "C", "D", "E", "F", "G", "H", "I", "J", "K", "L", "M",
           "N", "O", "P", "Q", "R", "S", "T", "U", "V", "W", "X", "Y", "Z">>

IsLetter(c) == \E k \in 1..Len(LOWER) : c = LOWER[k] \/ c = UPPER[k]

\* str.lower(), on the letters of ASCII
lower(s) ==
    [i \in 1..Len(s) |->
        IF \E k \in 1..Len(UPPER) : s[i] = UPPER[k]
        THEN LOWER[CHOOSE k \in 1..Len(UPPER) : s[i] = UPPER[k]]
        ELSE s[i]]

\* the least index >= from at which t occurs in s, or 0
IndexOf(s, t, from) ==
    LET at == {i \in from..(Len(s) + 1) : StartsAt(s, i, t)}
    IN  IF at = {} THEN 0 ELSE CHOOSE i \in at : \A j \in at : i <= j

\* the greatest index at which t occurs in s, or 0
LastIndexOf(s, t) ==
    LET at == {i \in 1..(Len(s) + 1) : StartsAt(s, i, t)}
    IN  IF at = {} THEN 0 ELSE CHOOSE i \in at : \A j \in at : i >= j

\* url begins with a scheme, as urlsplit finds it: a letter, then letters, digits,
\* "+", "-" or "." up to the first ":"
HasScheme(url) ==
    LET c == IndexOf(url, <<":">>, 1)
    IN  /\ c > 1
        /\ IsLetter(url[1])
        /\ \A i \in 1..(c - 1) : IsLetter(url[i]) \/ url[i] \in DIGIT \cup {"+", "-", "."}

\* scheme://host of an absolute URL
Origin(base) ==
    LET a == IndexOf(base, <<":", "/", "/">>, 1)
        e == IndexOf(base, <<"/">>, a + 3)
    IN  IF e = 0 THEN base ELSE SubSeq(base, 1, e - 1)

\* an absolute URL up to the last "/" of its path
Directory(base) ==
    IF Origin(base) = base THEN base \o <<"/">>
    ELSE SubSeq(base, 1, LastIndexOf(base, <<"/">>))

\* a reading in which the reference is kept as it is
NotJoined(base, url) == url

\* urllib.parse.urljoin(base, url), for an absolute base without query and a
\* reference without dot segments: a reference with a scheme stands for itself,
\* "//host/.." takes the scheme, "/path" the origin, any other the directory
urljoin(base, url) ==
    IF url = <<>> THEN base
    ELSE IF HasScheme(url) THEN url
    ELSE IF StartsAt(url, 1, <<"/", "/">>)
         THEN SubSeq(base, 1, IndexOf(base, <<":">>, 1)) \o url
    ELSE IF url[1] = "/" THEN Origin(base) \o url
    ELSE Directory(base) \o url

NEWS_DETAIL == <<"n", "e", "w", "s", "_", "d", "e", "t", "a", "i", "l">>
ARTICLE_BODY == <<"a", "r", "t", "i", "c", "l", "e", "_", "b", "o", "d", "y">>
NEWS_CNT_DETAIL_WRAP == <<"n", "e", "w", "s", "_", "c", "n", "t", "_", "d", "e", "t", "a",
                          "i", "l", "_", "w", "r", "a", "p">>
VIEW_CONTENTS == <<"v", "i", "e", "w", "_", "c", "o", "n", "t", "e", "n", "t", "s">>
CONTAINER == <<"c", "o", "n", "t", "a", "i", "n", "e", "r">>

\* lines 176-184
container_selectors ==
    << ByTag("article"), ByClass(NEWS_DETAIL), ByClass(ARTICLE_BODY),
       ByClass(NEWS_CNT_DETAIL_WRAP), ByClass(VIEW_CONTENTS), ById(CONTAINER),
       ByTag("body") >>

\* lines 185-192: the first match of the first selector that matches, else the soup
RECURSIVE ContainerFrom(_, _)
ContainerFrom(root, i) ==
    IF i > Len(container_selectors) THEN <<>>
    ELSE LET el == select_one(root, container_selectors[i])
         IN  IF el # <<>> THEN el[1] ELSE ContainerFrom(root, i + 1)

\* line 195
SrcOf(img) ==
    IF img.src # <<>> THEN img.src
    ELSE IF img.data_src # <<>> THEN img.data_src
    ELSE img.data_original

\* line 201: re.search(r"\.(png|jpe?g|webp)(\?|$)", abs_url, re.I)
HasImageExt(u) ==
    \E i \in 1..Len(u) :
        \E ext \in { <<".", "p", "n", "g">>, <<".", "j", "p", "g">>,
                     <<".", "j", "p", "e", "g">>, <<".", "w", "e", "b", "p">> } :
            /\ StartsAt(lower(u), i, ext)
            /\ i + Len(ext) - 1 = Len(u) \/ u[i + Len(ext)] = "?"

\* line 203
HasIconToken(u) ==
    \E token \in { <<"l", "o", "g", "o">>, <<"i", "c", "o", "n">>,
                   <<"s", "p", "r", "i", "t", "e">>, <<"b", "l", "a", "n", "k">> } :
        Contains(lower(u), token)

\* lines 195-204: the image is taken
Taken(img, base_url) ==
    LET src == SrcOf(img)
    IN  /\ src # <<>>
        /\ ~StartsAt(src, 1, <<"d", "a", "t", "a", ":">>)
        /\ HasImageExt(urljoin(base_url, src))
        /\ ~HasIconToken(urljoin(base_url, src))

MAX_IMAGES == 4

\* lines 172-217
extract_mk_images(root, base_url) ==
    LET container == ContainerFrom(root, 1)
        found == WithTag(root, Descendants(root, container), {"img"})
        taken == SelectSeq(found, LAMBDA q : Taken(NodeAt(root, q), base_url))
        cands == [k \in 1..Len(taken) |-> urljoin(base_url, SrcOf(NodeAt(root, taken[k])))]
        uniq == At(cands, SelectSeq(Indices(cands),
                              LAMBDA i : \A j \in 1..(i - 1) : cands[j] # cands[i]))
    IN  IF Len(uniq) > MAX_IMAGES THEN SubSeq(uniq, 1, MAX_IMAGES) ELSE uniq

-----------------------------------------------------------------------------
(* main, lines 509-605                                                     *)

MK_BASE == <<"h", "t", "t", "p", "s", ":", "/", "/", "w", "w", "w", ".", "m", "k", ".",
             "c", "o", ".", "k", "r">>
BASE == <<"h", "t", "t", "p", "s", ":", "/", "/", "a", "s", "k", "j", "i", "y", "u", "n",
          ".", "c", "o", "m">>
\* "오늘의 운세"
TITLE_PREFIX == <<"U+C624", "U+B298", "U+C758", " ", "U+C6B4", "U+C138">>
\* "askjiyun 오늘의 운세", line 570
JIYUN_TITLE == <<"a", "s", "k", "j", "i", "y", "u", "n", " ",
                 "U+C624", "U+B298", "U+C758", " ", "U+C6B4", "U+C138">>
MAX_MESSAGE_LEN == 14000
MAX_LIST_PAGES == 6
\* "\n\n(메시지가 길어 일부만 전송됩니다. 원문에서 전체 확인하세요.)", line 588
NOTICE ==
    <<"\n", "\n", "(", "U+BA54", "U+C2DC", "U+C9C0", "U+AC00", " ", "U+AE38", "U+C5B4",
      " ", "U+C77C", "U+BD80", "U+B9CC", " ", "U+C804", "U+C1A1", "U+B429", "U+B2C8",
      "U+B2E4", ".", " ", "U+C6D0", "U+BB38", "U+C5D0", "U+C11C", " ", "U+C804",
      "U+CCB4", " ", "U+D655", "U+C778", "U+D558", "U+C138", "U+C694", ".", ")">>

\* f"🔮 {page_title}\n{post_url}", lines 554 and 574
Header(title, url) == <<"U+1F52E", " ">> \o title \o <<"\n">> \o url

\* lines 550-551 and 570, for a page without og:title: the text of the first
\* <title> element, or the default
PageTitle(root, default) ==
    LET t == WithTag(root, Descendants(root, <<>>), {"title"})
    IN  IF t = <<>> THEN default ELSE get_text(NodeAt(root, t[1]), <<>>)

\* lines 553-562
MkJob(root, url) ==
    LET image_urls == extract_mk_images(root, url)
        title == PageTitle(root, TITLE_PREFIX)
    IN  [title |-> title, url |-> url,
         message |-> IF image_urls # <<>> THEN <<>> ELSE Header(title, url),
         image_urls |-> image_urls]

\* lines 570-582, for a page without <title>; t is the text after lines 572-573
JiyunJob(t, url) ==
    [title |-> JIYUN_TITLE, url |-> url,
     message |-> Strip(Header(JIYUN_TITLE, url) \o <<"\n", "\n">> \o t),
     image_urls |-> <<>>]

\* a plausible slip: >= for >
CappedGe(message) ==
    IF Len(message) >= MAX_MESSAGE_LEN
    THEN SubSeq(message, 1, MAX_MESSAGE_LEN) \o NOTICE
    ELSE message

\* lines 586-588
Capped(message) ==
    IF Len(message) > MAX_MESSAGE_LEN
    THEN SubSeq(message, 1, MAX_MESSAGE_LEN) \o NOTICE
    ELSE message

\* the anchors of a search or list page that lines 127-135 (154-162) do not skip:
\* their href, and whether the title names today
OLD_LINK == [href |-> <<"/", "n", "e", "w", "s", "/", "1">>, today |-> FALSE]
TODAY_LINK == [href |-> <<"/", "n", "e", "w", "s", "/", "2">>, today |-> TRUE]
LISTINGS == { <<>>, <<OLD_LINK>>, <<TODAY_LINK>>, <<OLD_LINK, TODAY_LINK>> }

\* the index of the first anchor for today, or 0
FirstToday(links) ==
    LET at == {i \in 1..Len(links) : links[i].today}
    IN  IF at = {} THEN 0 ELSE CHOOSE i \in at : \A j \in at : i <= j

Hrefs(links, base, n) == [i \in 1..n |-> urljoin(base, links[i].href)]

\* lines 524-535: the source flags; the robots check only logs
Start ==
    /\ pc = "main"
    /\ IF which \in {"both", "mk"}
       THEN pc' = "mk_search" /\ page' = 1 /\ evaluated' = {"mk"}
       ELSE pc' = "jiyun_list" /\ page' = page /\ evaluated' = {"jiyun"}
    /\ UNCHANGED <<which, dry_run, webhook, fallback_links, post_url, mk_html,
                   jiyun_text, jobs, delivered, failed, parseVars, repairVars,
                   httpVars>>

\* lines 119-123: the search page cannot be fetched, the loop goes on
MkSearchFails ==
    /\ pc = "mk_search"
    /\ page <= MAX_LIST_PAGES
    /\ page' = page + 1
    /\ UNCHANGED <<pc, which, dry_run, webhook, fallback_links, post_url, mk_html,
                   jiyun_text, jobs, evaluated, delivered, failed, parseVars,
                   repairVars, httpVars>>

\* lines 125-137: the anchors of one search page; page and fallback_links are
\* locals of find_today_post_url and end when it returns
MkSearchPage ==
    /\ pc = "mk_search"
    /\ page <= MAX_LIST_PAGES
    /\ \E links \in LISTINGS :
          LET t == FirstToday(links)
          IN  IF t # 0
              THEN /\ fallback_links' = <<>>
                   /\ post_url' = urljoin(MK_BASE, links[t].href)
                   /\ pc' = "mk_fetch"
                   /\ page' = 0
              ELSE /\ fallback_links' = fallback_links \o Hrefs(links, MK_BASE, Len(links))
                   /\ post_url' = post_url
                   /\ pc' = pc
                   /\ page' = page + 1
    /\ UNCHANGED <<which, dry_run, webhook, mk_html, jiyun_text, jobs, evaluated,
                   delivered, failed, parseVars, repairVars, httpVars>>

\* lines 139-141: no page named today
MkSearchEnd ==
    /\ pc = "mk_search"
    /\ page > MAX_LIST_PAGES
    /\ IF fallback_links # <<>>
       THEN post_url' = fallback_links[1] /\ pc' = "mk_fetch" /\ failed' = failed
       ELSE post_url' = post_url /\ pc' = "failed" /\ failed' = "mk_find"
    /\ page' = 0
    /\ fallback_links' = <<>>
    /\ UNCHANGED <<which, dry_run, webhook, mk_html, jiyun_text, jobs, evaluated,
                   delivered, parseVars, repairVars, httpVars>>

\* a main whose MK job is wrapped in try/except: the error is recorded and the
\* run goes on to the askjiyun job
MkFetchSkipped ==
    /\ pc = "mk_fetch"
    /\ failed' = "mk_fetch"
    /\ IF which = "both"
       THEN pc' = "jiyun_list" /\ evaluated' = evaluated \cup {"jiyun"}
       ELSE pc' = "failed" /\ evaluated' = evaluated
    /\ UNCHANGED <<which, dry_run, webhook, page, fallback_links, post_url, mk_html,
                   jiyun_text, jobs, delivered, parseVars, repairVars, httpVars>>

\* line 543: http_get raises
MkFetchFails ==
    /\ pc = "mk_fetch"
    /\ pc' = "failed"
    /\ failed' = "mk_fetch"
    /\ UNCHANGED <<which, dry_run, webhook, page, fallback_links, post_url, mk_html,
                   jiyun_text, jobs, evaluated, delivered, parseVars, repairVars,
                   httpVars>>


A_JPG == <<"a", ".", "j", "p", "g">>
B_PNG == <<"b", ".", "p", "n", "g">>

\* <article><img src="a.jpg"><img src="b.png"></article>
ImagesPage == BeautifulSoup(<<El("article", <<>>, <<>>, <<Img(A_JPG, <<>>, <<>>), Img(B_PNG, <<>>, <<>>)>>)>>)

\* the MK article pages of the model
MK_PAGES ==
    { ImagesPage,
      \* a title and text, no image
      BeautifulSoup(<<El("title", <<>>, <<>>, <<TextNode(<<" ", "M", "K", "\n">>)>>),
                      El("article", <<>>, <<>>, <<P(T_TODAY)>>)>>),
      \* only images that are not taken: a logo, a data: URI, a gif, an <img> without src
      BeautifulSoup(<<El("article", <<>>, <<>>,
          <<Img(<<"l", "o", "g", "o", ".", "p", "n", "g">>, <<>>, <<>>),
            Img(<<"d", "a", "t", "a", ":", "a", ".", "p", "n", "g">>, <<>>, <<>>),
            Img(<<"e", ".", "g", "i", "f">>, <<>>, <<>>),
            Img(<<>>, <<>>, <<>>)>>)>>),
      \* an image outside the first container that matches, lazy-load attributes,
      \* an absolute URL with a query, upper case, a host-relative path
      BeautifulSoup(<<El("body", <<>>, <<>>,
          <<Img(A_JPG, <<>>, <<>>),
            El("div", <<VIEW_CONTENTS>>, <<>>,
               <<Img(<<>>, <<"/", "i", "/", "c", ".", "w", "e", "b", "p">>, <<>>),
                 Img(<<>>, <<>>, <<"B", ".", "P", "N", "G">>),
                 Img(<<"h", "t", "t", "p", "s", ":", "/", "/", "c", ".", "k", "r", "/",
                       "d", ".", "j", "p", "e", "g", "?", "w", "=", "9">>, <<>>, <<>>),
                 Img(<<"/", "/", "c", ".", "k", "r", "/", "g", ".", "j", "p", "g">>,
                     <<>>, <<>>)>>)>>)>>),
      \* no container at all; six images, one of them twice
      BeautifulSoup(<<Img(A_JPG, <<>>, <<>>), Img(B_PNG, <<>>, <<>>), Img(A_JPG, <<>>, <<>>),
                      Img(<<"c", ".", "j", "p", "g">>, <<>>, <<>>),
                      Img(<<"d", ".", "j", "p", "g">>, <<>>, <<>>),
                      Img(<<"e", ".", "j", "p", "g">>, <<>>, <<>>)>>) }

MaxExcess == 3   \* how far the longest message exceeds MAX_MESSAGE_LEN

\* a text of n characters that differ from place to place
TextOfLen(n) == [i \in 1..n |-> LOWER[(i % 7) + 1]]

\* the askjiyun texts of the model: none, a short one, and those that make the
\* message one short of the cap, the cap, one more and MaxExcess more
JIYUN_TEXTS ==
    LET h == Len(Header(JIYUN_TITLE, urljoin(BASE, TODAY_LINK.href))) + 2
    IN  { <<>>, T_TODAY } \cup
        { TextOfLen(MAX_MESSAGE_LEN - h + d) : d \in {-1, 0, 1, MaxExcess} }

\* lines 544-562
MkBuildJob ==
    /\ pc = "mk_fetch"
    /\ \E root \in MK_PAGES :
          /\ mk_html' = root
          /\ jobs' = Append(jobs, MkJob(root, post_url))
    /\ IF which = "both"
       THEN pc' = "jiyun_list" /\ evaluated' = evaluated \cup {"jiyun"}
       ELSE pc' = "truncate" /\ evaluated' = evaluated
    /\ UNCHANGED <<which, dry_run, webhook, page, fallback_links, post_url, jiyun_text,
                   delivered, failed, parseVars, repairVars, httpVars>>

\* lines 150 and 169: the list cannot be fetched, or it has no link
JiyunFindFails ==
    /\ pc = "jiyun_list"
    /\ pc' = "failed"
    /\ failed' = "jiyun_find"
    /\ UNCHANGED <<which, dry_run, webhook, page, fallback_links, post_url, mk_html,
                   jiyun_text, jobs, evaluated, delivered, parseVars, repairVars,
                   httpVars>>

\* lines 153-168: the link for today, or else the first link of the list
JiyunFind ==
    /\ pc = "jiyun_list"
    /\ \E links \in LISTINGS \ {<<>>} :
          LET t == FirstToday(links)
          IN  post_url' = urljoin(BASE, links[IF t # 0 THEN t ELSE 1].href)
    /\ pc' = "jiyun_fetch"
    /\ UNCHANGED <<which, dry_run, webhook, page, fallback_links, mk_html, jiyun_text,
                   jobs, evaluated, delivered, failed, parseVars, repairVars,
                   httpVars>>

\* line 568: http_get raises
JiyunFetchFails ==
    /\ pc = "jiyun_fetch"
    /\ pc' = "failed"
    /\ failed' = "jiyun_fetch"
    /\ UNCHANGED <<which, dry_run, webhook, page, fallback_links, post_url, mk_html,
                   jiyun_text, jobs, evaluated, delivered, parseVars, repairVars,
                   httpVars>>

\* lines 569-582
JiyunBuildJob ==
    /\ pc = "jiyun_fetch"
    /\ \E t \in JIYUN_TEXTS :
          /\ jiyun_text' = t
          /\ jobs' = Append(jobs, JiyunJob(t, post_url))
    /\ pc' = "truncate"
    /\ UNCHANGED <<which, dry_run, webhook, page, fallback_links, post_url, mk_html,
                   evaluated, delivered, failed, parseVars, repairVars, httpVars>>

\* lines 585-588
TruncateJobs ==
    /\ pc = "truncate"
    /\ jobs' = [i \in 1..Len(jobs) |-> [jobs[i] EXCEPT !.message = Capped(@)]]
    /\ pc' = "deliver"
    /\ UNCHANGED <<which, dry_run, webhook, page, fallback_links, post_url, mk_html,
                   jiyun_text, evaluated, delivered, failed, parseVars, repairVars,
                   httpVars>>

\* lines 590-601: a dry run prints the next job
PrintJob ==
    /\ pc = "deliver"
    /\ dry_run
    /\ delivered < Len(jobs)
    /\ delivered' = delivered + 1
    /\ UNCHANGED <<pc, which, dry_run, webhook, page, fallback_links, post_url, mk_html,
                   jiyun_text, jobs, evaluated, failed, parseVars, repairVars,
                   httpVars>>

\* lines 603-604 and 365-410: the next job is posted
SendJob ==
    /\ pc = "deliver"
    /\ ~dry_run
    /\ webhook
    /\ delivered < Len(jobs)
    /\ delivered' = delivered + 1
    /\ UNCHANGED <<pc, which, dry_run, webhook, page, fallback_links, post_url, mk_html,
                   jiyun_text, jobs, evaluated, failed, parseVars, repairVars,
                   httpVars>>

\* lines 372-373 and 401-409: send_to_gchat raises, for the missing webhook or
\* for a POST that fails
SendFails ==
    /\ pc = "deliver"
    /\ ~dry_run
    /\ delivered < Len(jobs)
    /\ pc' = "failed"
    /\ failed' = IF ~webhook THEN "webhook"
                 ELSE IF (which = "both" /\ delivered = 0) \/ which = "mk"
                 THEN "mk_send" ELSE "jiyun_send"
    /\ UNCHANGED <<which, dry_run, webhook, page, fallback_links, post_url, mk_html,
                   jiyun_text, jobs, evaluated, delivered, parseVars, repairVars,
                   httpVars>>

\* line 605: every job has been handed over
Finish ==
    /\ pc = "deliver"
    /\ delivered = Len(jobs)
    /\ pc' = "done"
    /\ UNCHANGED <<which, dry_run, webhook, page, fallback_links, post_url, mk_html,
                   jiyun_text, jobs, evaluated, delivered, failed, parseVars,
                   repairVars, httpVars>>

MainInit ==
    /\ pc = "main"
    /\ which \in {"both", "mk", "jiyun"}
    /\ dry_run \in BOOLEAN
    /\ webhook \in BOOLEAN
    /\ page = 0
    /\ fallback_links = <<>>
    /\ post_url = <<>>
    /\ mk_html = BeautifulSoup(<<>>)
    /\ jiyun_text = <<>>
    /\ jobs = <<>>
    /\ evaluated = {}
    /\ delivered = 0
    /\ failed = "none"
    /\ IdleParse
    /\ IdleRepair
    /\ IdleHttp

MainNext ==
    \/ Start
    \/ MkSearchFails
    \/ MkSearchPage
    \/ MkSearchEnd
    \/ MkFetchFails
    \/ MkBuildJob
    \/ JiyunFindFails
    \/ JiyunFind
    \/ JiyunFetchFails
    \/ JiyunBuildJob
    \/ TruncateJobs
    \/ PrintJob
    \/ SendJob
    \/ SendFails
    \/ Finish

MainSpec == MainInit /\ [][MainNext]_vars

-----------------------------------------------------------------------------
(* Properties of main                                                      *)

\* the jobs of a run, by its flags (lines 539 and 564)
JobCount == IF which = "both" THEN 2 ELSE 1
HasMk == which \in {"both", "mk"}
HasJiyun == which \in {"both", "jiyun"}

\* the loop of lines 585-588 has run
Truncated == pc \in {"deliver", "done"} \/ failed \in {"mk_send", "jiyun_send", "webhook"}

\* the message job i was built with (lines 554 and 574), before lines 585-588
Built(i) ==
    IF HasMk /\ i = 1
    THEN IF jobs[i].image_urls # <<>> THEN <<>> ELSE Header(jobs[i].title, jobs[i].url)
    ELSE Strip(Header(JIYUN_TITLE, jobs[i].url) \o <<"\n", "\n">> \o jiyun_text)

\* C6: once the length cap has been applied, every job's message - hence every
\* message that is posted or printed - is, when the message it was built with
\* is longer than 14000 characters, exactly the first 14000 characters of it
\* followed by the notice, and so 14000 plus the notice length long; a message
\* of 14000 characters or fewer is unchanged.
C6_LengthCap ==
    Truncated =>
        \A i \in 1..Len(jobs) :
            LET m == Built(i)
                d == jobs[i].message
            IN  /\ Len(m) > 14000 =>
                    /\ d = SubSeq(m, 1, 14000) \o NOTICE
                    /\ Len(d) = 14000 + Len(NOTICE)
                /\ Len(m) <= 14000 => d = m
                /\ Len(d) <= 14000 + Len(NOTICE)

\* a run has posted a message that was cut, and its other message, an empty MK
\* message, went out as it was
C6_Witness ==
    /\ pc = "done"
    /\ ~dry_run
    /\ which = "both"
    /\ delivered = 2
    /\ Len(Built(2)) > 14000
    /\ Len(jobs[2].message) = 14000 + Len(NOTICE)
    /\ jobs[1].message = Built(1)

MkOwnFailure == failed \in {"mk_find", "mk_fetch", "mk_send"}
JiyunOwnFailure == failed \in {"jiyun_find", "jiyun_fetch", "jiyun_send"}
MkSent == HasMk /\ delivered >= 1
JiyunSent == HasJiyun /\ delivered = JobCount

\* C8 as the specification states it: in a run for both jobs that has ended, a
\* job none of whose own steps failed has been evaluated and sent, whatever
\* happened to the other job (a missing webhook fails both).
C8_AsStated ==
    (which = "both" /\ pc \in {"done", "failed"} /\ failed # "webhook") =>
        /\ ~MkOwnFailure => ("mk" \in evaluated /\ MkSent)
        /\ ~JiyunOwnFailure => ("jiyun" \in evaluated /\ JiyunSent)

\* C8, amended: a run for both jobs evaluates MK first and askjiyun second, and
\* sends nothing before both jobs are built. The first failure ends the run: a
\* failure finding or fetching the MK article leaves askjiyun unevaluated and
\* nothing sent; a failure finding or fetching the askjiyun article leaves the
\* MK job built but unsent; a failure sending the MK job leaves askjiyun unsent;
\* only a failure sending askjiyun leaves the other job (MK) sent.
C8_Amended ==
    which = "both" =>
        /\ (failed # "none") <=> (pc = "failed")
        /\ delivered > 0 => Len(jobs) = 2
        /\ failed \in {"mk_find", "mk_fetch"} =>
              (jobs = <<>> /\ delivered = 0 /\ "jiyun" \notin evaluated)
        /\ failed \in {"jiyun_find", "jiyun_fetch"} =>
              (Len(jobs) = 1 /\ delivered = 0 /\ "jiyun" \in evaluated)
        /\ failed \in {"mk_send", "webhook"} => (Len(jobs) = 2 /\ delivered = 0)
        /\ failed = "jiyun_send" => (Len(jobs) = 2 /\ delivered = 1)
        /\ pc = "done" => (Len(jobs) = 2 /\ delivered = 2 /\ evaluated = {"mk", "jiyun"})

\* the MK job was built without error, then the askjiyun article could not be
\* fetched, and the run ended with the MK job unsent
C8_Witness ==
    /\ which = "both"
    /\ pc = "failed"
    /\ failed = "jiyun_fetch"
    /\ Len(jobs) = 1
    /\ delivered = 0

\* C9: for the page <article><img src="a.jpg"><img src="b.png"></article>,
\* extract_mk_images returns exactly the two URLs made absolute against the
\* page URL, in document order, and the MK job carries them with an empty
\* message, which stays empty up to delivery.
C9_ImageJob ==
    (HasMk /\ mk_html = ImagesPage) =>
        LET j == jobs[1]
            dir == MK_BASE \o <<"/", "n", "e", "w", "s", "/">>
            urls == <<dir \o A_JPG, dir \o B_PNG>>
        IN  /\ j.url \in {dir \o <<"1">>, dir \o <<"2">>}
            /\ extract_mk_images(mk_html, j.url) = urls
            /\ j.image_urls = urls
            /\ j.message = <<>>

\* the job of that page has been posted
C9_Witness ==
    /\ mk_html = ImagesPage
    /\ HasMk
    /\ pc = "done"
    /\ ~dry_run
    /\ delivered = JobCount
    /\ Len(jobs[1].image_urls) = 2
    /\ jobs[1].message = <<>>

-----------------------------------------------------------------------------
(* http_get, lines 80-91                                                   *)

MaxRetry == 3          \* the largest retry the function is called with
DEFAULT_RETRY == 3     \* retry=3, line 80
DEFAULT_BACKOFF == 12  \* backoff=1.2, line 80, in tenths of a second

\* what requests.get and raise_for_status raise, and the response texts
EXCEPTIONS == {"Timeout", "ConnectionError", "HTTPError"}
RESPONSES == {<<>>, <<"o", "k">>}

\* http_get(url, retry=r, backoff=b), at the head of the loop of line 82
HttpInit ==
    /\ pc = "http_get"
    /\ retry \in 0..MaxRetry
    /\ backoff \in {0, DEFAULT_BACKOFF}
    /\ attempt = 1
    /\ last_exc = "None"
    /\ log = <<>>
    /\ slept = 0
    /\ result = [kind |-> "none", value |-> <<>>]
    /\ IdleParse
    /\ IdleRepair
    /\ IdleMain

\* lines 84-86: the request succeeds and its text is returned
HttpGetOk ==
    /\ pc = "http_get"
    /\ attempt <= retry
    /\ \E t \in RESPONSES : result' = [kind |-> "returned", value |-> t]
    /\ log' = Append(log, "ok")
    /\ pc' = "returned"
    /\ UNCHANGED <<retry, backoff, attempt, last_exc, slept, parseVars, repairVars,
                   mainVars>>

\* lines 84-85 and 87-89: requests.get or raise_for_status raises
HttpGetFails ==
    /\ pc = "http_get"
    /\ attempt <= retry
    /\ \E e \in EXCEPTIONS : last_exc' = e
    /\ log' = Append(log, "fail")
    /\ pc' = "sleep"
    /\ UNCHANGED <<retry, backoff, attempt, slept, result, parseVars, repairVars,
                   mainVars>>

\* a loop that sleeps between attempts only, not after the last one
HttpSleepBetween ==
    /\ pc = "sleep"
    /\ IF attempt < retry
       THEN slept' = slept + backoff /\ log' = Append(log, "sleep")
       ELSE slept' = slept /\ log' = log
    /\ attempt' = attempt + 1
    /\ pc' = "http_get"
    /\ UNCHANGED <<retry, backoff, last_exc, result, parseVars, repairVars, mainVars>>

\* line 90, and the next value of i at line 82
HttpSleep ==
    /\ pc = "sleep"
    /\ slept' = slept + backoff
    /\ log' = Append(log, "sleep")
    /\ attempt' = attempt + 1
    /\ pc' = "http_get"
    /\ UNCHANGED <<retry, backoff, last_exc, result, parseVars, repairVars, mainVars>>

\* line 91: the loop is exhausted
HttpRaise ==
    /\ pc = "http_get"
    /\ attempt > retry
    /\ result' = [kind |-> "raised", value |-> last_exc]
    /\ pc' = "raised"
    /\ UNCHANGED <<retry, backoff, attempt, last_exc, log, slept, parseVars,
                   repairVars, mainVars>>

HttpNext ==
    \/ HttpGetOk
    \/ HttpGetFails
    \/ HttpSleep
    \/ HttpRaise

\* the function is sequential code and every step of it ends (the request by
\* its timeout), so a step that can be taken is taken
HttpSpec == HttpInit /\ [][HttpNext]_vars /\ WF_vars(HttpNext)

\* how many entries of the log are the event e
Count(e) == Cardinality({k \in 1..Len(log) : log[k] = e})

HttpEnded == pc \in {"returned", "raised"}

HttpBounded ==
    \* at most retry requests
    /\ Count("ok") + Count("fail") <= retry
    \* a success is the last thing the call does: it returns at once
    /\ \A k \in 1..Len(log) : log[k] = "ok" => (k = Len(log) /\ pc = "returned")
    \* each failed attempt is followed by one sleep of the fixed backoff
    /\ \A k \in 1..Len(log) :
          log[k] = "fail" => IF k = Len(log) THEN pc = "sleep" ELSE log[k + 1] = "sleep"
    /\ \A k \in 1..Len(log) : log[k] = "sleep" => (k > 1 /\ log[k - 1] = "fail")
    /\ slept = backoff * Count("sleep")
    \* it returns the text of the first success
    /\ pc = "returned" =>
          (result.kind = "returned" /\ result.value \in RESPONSES /\ Count("ok") = 1)
    \* it raises only when all retry attempts failed, and then it gives no value
    /\ pc = "raised" =>
          /\ result = [kind |-> "raised", value |-> last_exc]
          /\ Count("fail") = retry
          /\ Count("sleep") = retry
          /\ Count("ok") = 0
    /\ Count("fail") = retry => result.kind # "returned"
    /\ ~HttpEnded => result.kind = "none"

\* C11: http_get ends after a bounded number of attempts: it issues at most
\* retry requests, returns the response text at the first success without
\* another request, sleeps the backoff after every failed attempt, and when
\* all retry attempts failed it raises instead of returning a value.
C11_HttpGet == [](HttpBounded) /\ <>HttpEnded

\* the default call, with all three attempts failed: three requests, three
\* sleeps of 1.2 s, then the error
C11_Witness ==
    /\ pc = "raised"
    /\ retry = DEFAULT_RETRY
    /\ backoff = DEFAULT_BACKOFF
    /\ log = <<"fail", "sleep", "fail", "sleep", "fail", "sleep">>
    /\ slept = DEFAULT_RETRY * DEFAULT_BACKOFF
    /\ result.kind = "raised"

=============================================================================
